---------------------------- MODULE Spec2Model ----------------------------
(***************************************************************************)
(* A model of the main loop of the *Bayes variant caller (src/bayes.cpp):  *)
(* the genotype set is built once, then positions are pulled from the      *)
(* caller's feed one at a time and a JSON record is streamed to cout for   *)
(* every position that has at least one allele.                            *)
(*                                                                         *)
(* Probabilities are fixed-point numbers in units of 1/Scale; products     *)
(* and quotients round down, so that a likelihood can underflow to zero.   *)
(***************************************************************************)
EXTENDS Integers, Sequences, FiniteSets

(***************************************************************************)
(* Bounds of the model.                                                    *)
(***************************************************************************)
MaxAlleles == 3
MaxPositions == 2
NumSamples == 2
MaxPloidy == 3

Samples == 1..NumSamples
ObsBases == {"A", "T", "N"}
Quals == {20}
TargetSeq == "ref"

(***************************************************************************)
(* Fixed-point arithmetic.                                                 *)
(***************************************************************************)
Scale == 10 ^ 3

FixMul(a, b) == (a * b) \div Scale

RECURSIVE SumSeq(_)
SumSeq(s) == IF s = <<>> THEN 0 ELSE Head(s) + SumSeq(Tail(s))

(***************************************************************************)
(* The allele alphabet built in main and the alleles of the feed.          *)
(***************************************************************************)
AlleleUniverse == {"Ref", "A", "T", "G", "C"}

mainGenotypeAlleles == <<"Ref", "A", "T", "G", "C">>

mainPloidy == 2

ObservedAlleles == [sampleID : Samples, base : ObsBases, quality : Quals]

RECURSIVE SeqsUpTo(_, _)
SeqsUpTo(S, n) ==
    IF n = 0 THEN {<<>>}
    ELSE LET shorter == SeqsUpTo(S, n - 1)
         IN shorter \cup {Append(s, x) : s \in {t \in shorter : Len(t) = n - 1}, x \in S}

AlleleLists == SeqsUpTo(ObservedAlleles, MaxAlleles)

(***************************************************************************)
(* multichoose(k, objects): every multiset of size k over objects, in      *)
(* lexicographic order of the objects' indices.                            *)
(***************************************************************************)
RECURSIVE multichooseFrom(_, _, _)
multichooseFrom(k, objects, i) ==
    IF k = 0 THEN << <<>> >>
    ELSE IF i > Len(objects) THEN <<>>
    ELSE LET rest == multichooseFrom(k - 1, objects, i)
             withI == [j \in 1..Len(rest) |-> <<objects[i]>> \o rest[j]]
         IN withI \o multichooseFrom(k, objects, i + 1)

RECURSIVE chooseFrom(_, _, _)
chooseFrom(k, objects, i) ==
    IF k = 0 THEN << <<>> >>
    ELSE IF i > Len(objects) THEN <<>>
    ELSE LET rest == chooseFrom(k - 1, objects, i + 1)
             withI == [j \in 1..Len(rest) |-> <<objects[i]>> \o rest[j]]
         IN withI \o chooseFrom(k, objects, i + 1)

\* A combinator that never repeats an object within a choice.
multichooseNoRepeat(k, objects) == chooseFrom(k, objects, 1)

multichoose(k, objects) == multichooseFrom(k, objects, 1)

(***************************************************************************)
(* groupAllelesBySample: the alleles of the list, by sample identifier,    *)
(* each group in the order of the list.                                    *)
(***************************************************************************)
groupAllelesBySample(list) ==
    LET ids == {list[i].sampleID : i \in 1..Len(list)}
    IN [s \in ids |-> SelectSeq(list, LAMBDA a : a.sampleID = s)]

(***************************************************************************)
(* A std::map iterates its keys in increasing order.                       *)
(***************************************************************************)
RECURSIVE SortedKeys(_)
SortedKeys(K) ==
    IF K = {} THEN <<>>
    ELSE LET m == CHOOSE x \in K : \A y \in K : x <= y
         IN <<m>> \o SortedKeys(K \ {m})

(***************************************************************************)
(* The likelihood engine.                                                  *)
(***************************************************************************)
phred2float(q) == Scale \div (10 ^ (q \div 10))

probMatch(obs, g, q, nAlphabet) ==
    IF obs = g THEN Scale - phred2float(q)
    ELSE phred2float(q) \div (nAlphabet - 1)

probObservedAlleleGivenGenotype(a, genotype, nAlphabet) ==
    SumSeq([i \in 1..Len(genotype) |->
              probMatch(a.base, genotype[i], a.quality, nAlphabet)])
        \div Len(genotype)

RECURSIVE likelihood(_, _, _)
likelihood(observations, genotype, nAlphabet) ==
    IF observations = <<>> THEN Scale
    ELSE FixMul(probObservedAlleleGivenGenotype(Head(observations), genotype, nAlphabet),
                likelihood(Tail(observations), genotype, nAlphabet))

probObservedAllelesGivenGenotypes(observations, gts, nAlphabet) ==
    [i \in 1..Len(gts) |->
        [genotype |-> gts[i], prob |-> likelihood(observations, gts[i], nAlphabet)]]

(***************************************************************************)
(* normalizeGenotypeProbabilities: divide by the sum; a table whose raw    *)
(* likelihoods are all zero becomes the uniform distribution.              *)
(***************************************************************************)
isDegenerate(table) == SumSeq([i \in 1..Len(table) |-> table[i].prob]) = 0

normalizeGenotypeProbabilities(table) ==
    LET total == SumSeq([i \in 1..Len(table) |-> table[i].prob])
    IN [i \in 1..Len(table) |->
          [genotype |-> table[i].genotype,
           prob |-> IF total = 0 THEN Scale \div Len(table)
                    ELSE (table[i].prob * Scale) \div total]]

(***************************************************************************)
(* float2phred(x) = -10 log10 x, in hundredths and rounded down:           *)
(* PhredSteps[j] is 10^(-j/100) in units of 1/Scale.  PhredInf stands for  *)
(* the infinity the conversion gives for x = 0.                            *)
(***************************************************************************)
PhredSteps ==
    <<977, 954, 933, 912, 891, 870, 851, 831, 812, 794, 776,
      758, 741, 724, 707, 691, 676, 660, 645, 630, 616, 602,
      588, 575, 562, 549, 537, 524, 512, 501, 489, 478, 467,
      457, 446, 436, 426, 416, 407, 398, 389, 380, 371, 363,
      354, 346, 338, 331, 323, 316, 309, 301, 295, 288, 281,
      275, 269, 263, 257, 251, 245, 239, 234, 229, 223, 218,
      213, 208, 204, 199, 194, 190, 186, 181, 177, 173, 169,
      165, 162, 158, 154, 151, 147, 144, 141, 138, 134, 131,
      128, 125, 123, 120, 117, 114, 112, 109, 107, 104, 102>>

PhredInf == 10 * Scale

RECURSIVE float2phred(_)
float2phred(x) ==
    IF x <= 0 THEN PhredInf
    ELSE IF x * 10 <= Scale THEN 100 + float2phred(x * 10)
    ELSE Cardinality({j \in 1..Len(PhredSteps) : x <= PhredSteps[j]})

VARIABLES
    pc,              \* the position of main
    genotypeAlleles, \* vector<Allele> genotypeAlleles
    genotypes,       \* vector<vector<Allele> > genotypes
    feed,            \* the allele lists getNextAlleles has yielded so far
    eof,             \* getNextAlleles has returned false
    alleles,         \* list<Allele*> alleles
    sampleGroups,    \* map<string, vector<Allele*> > sampleGroups
    first,           \* bool first
    sampleAlleles,   \* the iterator of the loop over sampleGroups
    probs,           \* vector<pair<Genotype, long double> > probs
    out,             \* what has been written to cout
    diag,            \* the diagnostics surfaced so far
    mcK,             \* the combinator on its own: its ploidy,
    mcObjects,       \* its alphabet,
    mcChoices,       \* its result
    mcDone

vars == <<pc, genotypeAlleles, genotypes, feed, eof, alleles, sampleGroups, first,
          sampleAlleles, probs, out, diag, mcK, mcObjects, mcChoices, mcDone>>

mcVars == <<mcK, mcObjects, mcChoices, mcDone>>

mainVars == <<pc, genotypeAlleles, genotypes, feed, eof, alleles, sampleGroups, first,
              sampleAlleles, probs, out, diag>>

NoGroups == [s \in {} |-> <<>>]

InitMain ==
    /\ pc = "start"
    /\ genotypeAlleles = <<>>
    /\ genotypes = <<>>
    /\ feed = <<>>
    /\ eof = FALSE
    /\ alleles = <<>>
    /\ sampleGroups = NoGroups
    /\ first = TRUE
    /\ sampleAlleles = 1
    /\ probs = <<>>
    /\ out = <<>>
    /\ diag = <<>>

Init ==
    /\ InitMain
    /\ mcK = 0
    /\ mcObjects = <<>>
    /\ mcChoices = <<>>
    /\ mcDone = FALSE

(***************************************************************************)
(* main, lines 62-69: the genotype set.                                    *)
(***************************************************************************)
BuildGenotypes ==
    /\ pc = "start"
    /\ genotypeAlleles' = mainGenotypeAlleles
    /\ genotypes' = multichoose(mainPloidy, mainGenotypeAlleles)
    /\ pc' = "pull"
    /\ UNCHANGED <<feed, eof, alleles, sampleGroups, first, sampleAlleles, probs, out, diag>>
    /\ UNCHANGED mcVars

(***************************************************************************)
(* main, lines 71-74: the loop condition and the skip of an empty list.    *)
(***************************************************************************)
\* The loop without the skip of line 73.
NextPcNoSkip(more, list) == IF ~more THEN "exit" ELSE "header"

\* The loop leaving (break) at an empty list instead of going on (continue).
NextPcBreakOnEmpty(more, list) ==
    IF ~more \/ Len(list) = 0 THEN "exit" ELSE "header"

NextPc(more, list) ==
    IF ~more THEN "exit"
    ELSE IF Len(list) = 0 THEN "pull"
    ELSE "header"

GetNextAlleles ==
    /\ pc = "pull"
    /\ \/ /\ Len(feed) < MaxPositions
          /\ \E list \in AlleleLists :
                /\ feed' = Append(feed, list)
                /\ alleles' = list
                /\ pc' = NextPc(TRUE, list)
          /\ eof' = eof
       \/ /\ eof' = TRUE
          /\ pc' = NextPc(FALSE, alleles)
          /\ UNCHANGED <<feed, alleles>>
    /\ UNCHANGED <<genotypeAlleles, genotypes, sampleGroups, first, sampleAlleles,
                   probs, out, diag>>
    /\ UNCHANGED mcVars

(***************************************************************************)
(* main, lines 76-87: the head of the record, the grouping and the start   *)
(* of the loop over the groups.                                            *)
(***************************************************************************)
LoopPc(groups, it) ==
    IF it > Cardinality(DOMAIN groups) THEN "close" ELSE "likelihood"

recordHead(position) ==
    [sequence |-> TargetSeq, position |-> position, commas |-> 0,
     samples |-> <<>>, closed |-> FALSE]

EmitHeader ==
    /\ pc = "header"
    /\ out' = Append(out, recordHead(Len(feed)))
    /\ sampleGroups' = groupAllelesBySample(alleles)
    /\ first' = TRUE
    /\ sampleAlleles' = 1
    /\ pc' = LoopPc(sampleGroups', 1)
    /\ UNCHANGED <<genotypeAlleles, genotypes, feed, eof, alleles, probs, diag>>
    /\ UNCHANGED mcVars

currentGroup == sampleGroups[SortedKeys(DOMAIN sampleGroups)[sampleAlleles]]

withComma(rec) == [rec EXCEPT !.commas = @ + 1]

withEntry(rec, entry) == [rec EXCEPT !.samples = Append(@, entry)]

withClose(rec) == [rec EXCEPT !.closed = TRUE]

(***************************************************************************)
(* main, lines 89-92: the separator and the likelihood table of the group. *)
(***************************************************************************)
\* The likelihood computed over the whole list of the position.
likelihoodInputWholeList(group, list) == list

likelihoodInput(group, list) == group

SampleLikelihood ==
    /\ pc = "likelihood"
    /\ IF ~first THEN out' = [out EXCEPT ![Len(out)] = withComma(@)] /\ first' = first
                 ELSE out' = out /\ first' = FALSE
    /\ probs' = probObservedAllelesGivenGenotypes(
                    likelihoodInput(currentGroup, alleles), genotypes,
                    Len(genotypeAlleles))
    /\ pc' = "normalize"
    /\ UNCHANGED <<genotypeAlleles, genotypes, feed, eof, alleles, sampleGroups,
                   sampleAlleles, diag>>
    /\ UNCHANGED mcVars

(***************************************************************************)
(* main, line 94: the normalization of the table.                          *)
(***************************************************************************)
\* The loop body without the call of line 94.
SampleNormalizeSkipped ==
    /\ pc = "normalize"
    /\ pc' = "emit"
    /\ UNCHANGED <<genotypeAlleles, genotypes, feed, eof, alleles, sampleGroups, first,
                   sampleAlleles, probs, out, diag>>
    /\ UNCHANGED <<mcK, mcObjects, mcChoices, mcDone>>

SampleNormalize ==
    /\ pc = "normalize"
    /\ probs' = normalizeGenotypeProbabilities(probs)
    /\ diag' = IF isDegenerate(probs)
               THEN Append(diag, <<Len(feed), currentGroup[1].sampleID>>)
               ELSE diag
    /\ pc' = "emit"
    /\ UNCHANGED <<genotypeAlleles, genotypes, feed, eof, alleles, sampleGroups, first,
                   sampleAlleles, out>>
    /\ UNCHANGED mcVars

(***************************************************************************)
(* main, lines 99-110: the entry of the sample, and the step of the        *)
(* iterator (line 87).                                                     *)
(***************************************************************************)
\* The entry reporting the size of the table as the coverage.
sampleEntryTableSize(group, table) ==
    [label |-> group[1].sampleID,
     coverage |-> Len(table),
     genotypes |-> [i \in 1..Len(table) |->
                      [genotype |-> table[i].genotype,
                       score |-> float2phred(Scale - table[i].prob)]]]

\* The entry written from the last genotype of the table to the first.
sampleEntryReversed(group, table) ==
    [label |-> group[1].sampleID,
     coverage |-> Len(group),
     genotypes |-> [i \in 1..Len(table) |->
                      [genotype |-> table[Len(table) + 1 - i].genotype,
                       score |-> float2phred(Scale - table[Len(table) + 1 - i].prob)]]]

sampleEntry(group, table) ==
    [label |-> group[1].sampleID,
     coverage |-> Len(group),
     genotypes |-> [i \in 1..Len(table) |->
                      [genotype |-> table[i].genotype,
                       score |-> float2phred(Scale - table[i].prob)]]]

SampleEmit ==
    /\ pc = "emit"
    /\ LET entry == sampleEntry(currentGroup, probs)
       IN out' = [out EXCEPT ![Len(out)] = withEntry(@, entry)]
    /\ sampleAlleles' = sampleAlleles + 1
    /\ pc' = LoopPc(sampleGroups, sampleAlleles')
    /\ UNCHANGED <<genotypeAlleles, genotypes, feed, eof, alleles, sampleGroups, first,
                   probs, diag>>
    /\ UNCHANGED mcVars

(***************************************************************************)
(* main, line 114: the end of the record.                                  *)
(***************************************************************************)
EmitClose ==
    /\ pc = "close"
    /\ out' = [out EXCEPT ![Len(out)] = withClose(@)]
    /\ pc' = "pull"
    /\ UNCHANGED <<genotypeAlleles, genotypes, feed, eof, alleles, sampleGroups, first,
                   sampleAlleles, probs, diag>>
    /\ UNCHANGED mcVars

(***************************************************************************)
(* main, lines 118-120.                                                    *)
(***************************************************************************)
Finish ==
    /\ pc = "exit"
    /\ pc' = "done"
    /\ UNCHANGED <<genotypeAlleles, genotypes, feed, eof, alleles, sampleGroups, first,
                   sampleAlleles, probs, out, diag>>
    /\ UNCHANGED mcVars

Next ==
    \/ BuildGenotypes
    \/ GetNextAlleles
    \/ EmitHeader
    \/ SampleLikelihood
    \/ SampleNormalize
    \/ SampleEmit
    \/ EmitClose
    \/ Finish

Spec == Init /\ [][Next]_vars

(***************************************************************************)
(* The combinator on its own: generate(alphabet, k) for every ordered      *)
(* alphabet of distinct alleles and every ploidy up to MaxPloidy.          *)
(***************************************************************************)
Range(s) == {s[i] : i \in 1..Len(s)}

Alphabets ==
    {s \in SeqsUpTo(AlleleUniverse, Cardinality(AlleleUniverse)) :
        Len(s) >= 1 /\ Cardinality(Range(s)) = Len(s)}

InitMultichoose ==
    /\ InitMain
    /\ mcK \in 1..MaxPloidy
    /\ mcObjects \in Alphabets
    /\ mcChoices = <<>>
    /\ mcDone = FALSE

Generate ==
    /\ ~mcDone
    /\ mcChoices' = multichoose(mcK, mcObjects)
    /\ mcDone' = TRUE
    /\ UNCHANGED <<mcK, mcObjects>>
    /\ UNCHANGED mainVars

NextMultichoose == Generate

SpecMultichoose == InitMultichoose /\ [][NextMultichoose]_vars

(***************************************************************************)
(* What the claims read from a state.                                      *)
(***************************************************************************)
InPosition == pc \in {"likelihood", "normalize", "emit", "close"}

Labels(rec) == {rec.samples[i].label : i \in 1..Len(rec.samples)}

Complete(rec) ==
    /\ rec.closed
    /\ rec.commas = (IF rec.samples = <<>> THEN 0 ELSE Len(rec.samples) - 1)

ObsOf(list, s) == SelectSeq(list, LAMBDA a : a.sampleID = s)

IndexesOf(list, s) == {i \in 1..Len(list) : list[i].sampleID = s}

NthIndex(I, n) == CHOOSE i \in I : Cardinality({j \in I : j < i}) = n - 1

rawTable(list, s) ==
    probObservedAllelesGivenGenotypes(ObsOf(list, s), genotypes, Len(genotypeAlleles))

\* C1: a position pulled with an empty allele list gets no record and no part
\* of one, and the loop goes on to pull the next position; only a position with
\* at least one allele gets a record.
C1_EmptyPositionSkipped ==
    /\ \A i \in 1..Len(out) :
          /\ feed[out[i].position] # <<>>
          /\ out[i].closed => out[i].samples # <<>>
    /\ (pc = "header" \/ InPosition) => alleles # <<>>
    /\ (feed # <<>> /\ feed[Len(feed)] = <<>> /\ ~eof) => pc = "pull"

C1_Witness ==
    /\ pc = "done"
    /\ Len(feed) = 2 /\ feed[1] = <<>> /\ feed[2] # <<>>
    /\ Len(out) = 1 /\ out[1].position = 2 /\ out[1].closed

\* C2: every emitted record has an entry for every sample of the run, also for
\* a sample with no allele at the position.
C2_EverySampleInEveryRecord ==
    \A i \in 1..Len(out) : out[i].closed => Labels(out[i]) = Samples

\* C3: in every reachable state the output holds only complete records, never
\* the prefix of one.
C3_NoPartialRecord ==
    \A i \in 1..Len(out) : Complete(out[i])

\* C5: the groups are a partition of the position's allele list that keeps
\* the list's order within a group; each entry of a record is labelled with
\* its group's key, each sample appears once, and the coverages of a record
\* sum to the number of alleles of the position.
IsPartition(groups, list) ==
    /\ DOMAIN groups = {list[i].sampleID : i \in 1..Len(list)}
    /\ \A s \in DOMAIN groups :
          /\ Len(groups[s]) = Cardinality(IndexesOf(list, s))
          /\ \A n \in 1..Len(groups[s]) :
                groups[s][n] = list[NthIndex(IndexesOf(list, s), n)]

C5_GroupsPartition ==
    /\ InPosition =>
          /\ IsPartition(sampleGroups, alleles)
          /\ LET keys == SortedKeys(DOMAIN sampleGroups)
                 rec == out[Len(out)]
             IN /\ Len(rec.samples) <= Len(keys)
                /\ \A i \in 1..Len(rec.samples) :
                      /\ rec.samples[i].label = keys[i]
                      /\ rec.samples[i].coverage = Len(sampleGroups[keys[i]])
    /\ \A i \in 1..Len(out) :
          out[i].closed =>
             /\ Cardinality(Labels(out[i])) = Len(out[i].samples)
             /\ SumSeq([j \in 1..Len(out[i].samples) |-> out[i].samples[j].coverage])
                   = Len(feed[out[i].position])

C5_Witness ==
    \E i \in 1..Len(out) :
       /\ out[i].closed
       /\ Len(feed[out[i].position]) = 3
       /\ feed[out[i].position][1].sampleID = 1
       /\ feed[out[i].position][2].sampleID = 2
       /\ feed[out[i].position][3].sampleID = 1
       /\ feed[out[i].position][1].base # feed[out[i].position][3].base
       /\ Len(out[i].samples) = 2
       /\ out[i].samples[1].coverage = 2
       /\ out[i].samples[2].coverage = 1

\* C6: a sample whose raw likelihoods are all zero gets the uniform
\* distribution over the genotype set and a diagnostic, without a division by
\* zero, and the run goes on to the next sample and the next position.
UniformScore == float2phred(Scale - (Scale \div Len(genotypes)))

DegenerateStep ==
    (pc = "normalize" /\ isDegenerate(probs)) =>
        /\ Len(probs') = Len(genotypes)
        /\ \A g \in 1..Len(probs') : probs'[g].prob = Scale \div Len(genotypes)
        /\ diag' = Append(diag, <<Len(feed), currentGroup[1].sampleID>>)
        /\ pc' = "emit"

C6_DiagnosedAreUniform ==
    /\ \A d \in 1..Len(diag) : \A i \in 1..Len(out) : \A j \in 1..Len(out[i].samples) :
          (out[i].position = diag[d][1] /\ out[i].samples[j].label = diag[d][2]) =>
             \A g \in 1..Len(genotypes) :
                out[i].samples[j].genotypes[g].score = UniformScore
    \* outside the loop over the samples, the record of every diagnosed sample
    \* has been finished: the run went on after the diagnostic
    /\ ~InPosition =>
          \A d \in 1..Len(diag) : \E i \in 1..Len(out) :
             /\ out[i].closed
             /\ out[i].position = diag[d][1]
             /\ diag[d][2] \in Labels(out[i])

C7_RecordHasVariationProbability ==
    \A i \in 1..Len(out) : out[i].closed => "variation" \in DOMAIN out[i]

\* C8: positions are processed one at a time: getNextAlleles is called only
\* when every record in the output is complete and the position pulled last
\* has its record (or was empty), a position has at most one record, the
\* records are in the order of the feed, and the loop ends exactly when the
\* feed has returned false.
C8_OnePositionAtATime ==
    /\ \A i \in 1..Len(out) : out[i].position \in 1..Len(feed)
    /\ \A i, j \in 1..Len(out) : i < j => out[i].position < out[j].position
    /\ \A i \in 1..(Len(out) - 1) : Complete(out[i])
    /\ ~InPosition => \A i \in 1..Len(out) : Complete(out[i])
    /\ InPosition => out # <<>> /\ out[Len(out)].position = Len(feed)
    /\ (pc = "pull" /\ feed # <<>> /\ feed[Len(feed)] # <<>>) =>
          out # <<>> /\ out[Len(out)].position = Len(feed)
    /\ (pc \in {"exit", "done"}) <=> eof

C8_Witness ==
    /\ pc = "done"
    /\ Len(feed) = 2
    /\ Len(out) = 2
    /\ out[1].position = 1 /\ out[2].position = 2
    /\ Len(out[1].samples) = 2

\* C9: the genotype set is built before the first position is pulled and is
\* not modified afterwards, and the genotype entries of every sample entry are
\* the genotypes of the set, one each, in the set's order.
C9_EntriesFollowGenotypeSet ==
    /\ feed # <<>> => genotypes # <<>>
    /\ \A i \in 1..Len(out) : \A j \in 1..Len(out[i].samples) :
          LET e == out[i].samples[j]
          IN /\ Len(e.genotypes) = Len(genotypes)
             /\ \A g \in 1..Len(genotypes) : e.genotypes[g].genotype = genotypes[g]

C9_GenotypeSetFixed ==
    /\ []C9_EntriesFollowGenotypeSet
    /\ [][pc # "start" => genotypes' = genotypes]_vars

C9_Witness ==
    /\ pc = "done"
    /\ Len(out) = 2
    /\ Len(out[1].samples) = 2
    /\ Len(out[2].samples) = 1
    /\ Len(out[2].samples[1].genotypes) = Len(genotypes)
    /\ out[2].samples[1].genotypes[2].genotype = <<"Ref", "A">>

\* C10: the entry emitted for a sample depends only on that sample's own
\* alleles at the position: two entries of one sample whose alleles are the
\* same, in the same order, are identical, whatever the other samples'
\* alleles and the earlier positions were.
C10_EntryDependsOnOwnAlleles ==
    \A i, j \in 1..Len(out) :
       \A a \in 1..Len(out[i].samples) : \A b \in 1..Len(out[j].samples) :
          LET e1 == out[i].samples[a]
              e2 == out[j].samples[b]
          IN (/\ e1.label = e2.label
              /\ ObsOf(feed[out[i].position], e1.label)
                    = ObsOf(feed[out[j].position], e2.label)) => e1 = e2

C10_Witness ==
    /\ Len(out) = 2
    /\ out[2].closed
    /\ Len(out[1].samples) = 2
    /\ Len(out[2].samples) = 1
    /\ out[1].samples[1].label = 1
    /\ out[2].samples[1].label = 1
    /\ ObsOf(feed[out[1].position], 1) = ObsOf(feed[out[2].position], 1)
    /\ out[1].samples[1] = out[2].samples[1]

(***************************************************************************)
(* The combinator's claim.                                                 *)
(***************************************************************************)
RECURSIVE Binomial(_, _)
Binomial(n, k) ==
    IF k = 0 THEN 1
    ELSE IF n = 0 THEN 0
    ELSE Binomial(n - 1, k - 1) + Binomial(n - 1, k)

Count(g, x) == Cardinality({i \in DOMAIN g : g[i] = x})

SameMultiset(g, h) == \A x \in Range(g) \cup Range(h) : Count(g, x) = Count(h, x)

\* C4: multichoose(k, alphabet) returns exactly C(n+k-1, k) genotypes, each a
\* multiset of size k over the alphabet, every such multiset among them and
\* no two of them equal as multisets; 15 for main's alphabet and k = 2.
C4_MultichooseComplete ==
    mcDone =>
       /\ Len(mcChoices) = Binomial(Len(mcObjects) + mcK - 1, mcK)
       /\ \A i \in 1..Len(mcChoices) :
             /\ Len(mcChoices[i]) = mcK
             /\ Range(mcChoices[i]) \subseteq Range(mcObjects)
       /\ \A i, j \in 1..Len(mcChoices) :
             i # j => ~SameMultiset(mcChoices[i], mcChoices[j])
       /\ \A f \in [1..mcK -> Range(mcObjects)] :
             \E i \in 1..Len(mcChoices) : SameMultiset(f, mcChoices[i])
       /\ (mcObjects = mainGenotypeAlleles /\ mcK = mainPloidy) =>
             Len(mcChoices) = 15

C4_Witness ==
    /\ mcDone
    /\ mcObjects = mainGenotypeAlleles
    /\ mcK = mainPloidy
    /\ Len(mcChoices) = 15
    /\ mcChoices[2] = <<"Ref", "A">>

=============================================================================
